---- MODULE Spec2Model ----
(***************************************************************************)
(* Model of the payment engine library (src/src/lib.rs): the accounts map, *)
(* the per-(client, tx) history of actions, and process_action with the    *)
(* five handlers it dispatches to.                                         *)
(*                                                                         *)
(* Decimal values are modelled as integers counting whole currency units:  *)
(* the engine only adds, subtracts and compares them, which is exact on    *)
(* Decimal as it is on integers (96-bit overflow is out of reach here).    *)
(* Option<T> is modelled as a sequence: <<>> is None, <<v>> is Some(v).    *)
(***************************************************************************)
EXTENDS Integers, Sequences, FiniteSets, TLC

\* ---------------------------------------------------------------- bounds
\* Number of events the driver feeds to process_action in one run.
MaxEvents == 4

\* Client ids (u16) and transaction ids (u32) that occur in the input.
ClientIds == {1, 2}
TxIds == {1, 2}

\* ---------------------------------------------------------------- Option
None == <<>>
Some(v) == <<v>>

unwrap_or(opt, default) == IF opt = None THEN default ELSE opt[1]

\* ---------------------------------------------------------------- types
Deposit == "deposit"
Withdrawal == "withdrawal"
Dispute == "dispute"
Resolve == "resolve"
Chargeback == "chargeback"

TxType == {Deposit, Withdrawal, Dispute, Resolve, Chargeback}

\* Amounts carried by Deposit and Withdrawal records of the input.  The amount
\* column is parsed as a signed Decimal, so a negative amount is well-formed.
PostingAmounts == {Some(50), Some(100), Some(-50)}

\* The records the event source can deliver.  A Dispute, Resolve or
\* Chargeback record has no amount column.
UserTransactions ==
    [tx_type : {Deposit, Withdrawal}, client_id : ClientIds,
     tx_id : TxIds, amount : PostingAmounts]
    \cup
    [tx_type : {Dispute, Resolve, Chargeback}, client_id : ClientIds,
     tx_id : TxIds, amount : {None}]

UserAccount_new(client_id) ==
    [client_id |-> client_id, available |-> 0, held |-> 0, total |-> 0,
     locked |-> FALSE]

\* Variant of calculate_total that forgets the held funds.
calculate_total_available_only(account) ==
    [account EXCEPT !.total = account.available]

calculate_total(account) ==
    [account EXCEPT !.total = account.available + account.held]

\* ---------------------------------------------------------------- state
VARIABLES
    accounts,   \* PaymentEngine.accounts : client_id -> UserAccount
    actions,    \* PaymentEngine.actions  : client_id -> tx_id -> Vec
    delivered,  \* number of events the driver loop has applied
    origin,     \* event source: the records read from the origin so far
    yielded,    \* event source: the items its iterator has produced
    diagnostics,\* event source: number of lines written to stderr
    decimal,    \* account sink: the Decimal field handed to the serializer
    written,    \* account sink: what the serializer wrote for it, if anything
    pending,    \* driver: the records of the origin not read yet
    pc,         \* driver: "loop" while in the for loop, "done" after it
    main_accounts,  \* main.rs PaymentEngine.accounts
    main_actions,   \* main.rs PaymentEngine.actions
    main_diagnostics \* main.rs: number of lines written to stderr

engine_vars == <<accounts, actions, delivered>>
source_vars == <<origin, yielded, diagnostics>>
sink_vars == <<decimal, written>>
driver_vars == <<pending, pc>>
binary_vars == <<main_accounts, main_actions, main_diagnostics>>

vars == <<accounts, actions, delivered, origin, yielded, diagnostics,
          decimal, written, pending, pc, main_accounts, main_actions,
          main_diagnostics>>

\* ---------------------------------------------------------------- helpers
\* self.accounts.entry(client_id).or_insert(UserAccount::new(client_id)):
\* the map after the call; the returned reference is its entry client_id.
get_or_create_account(accts, client_id) ==
    IF client_id \in DOMAIN accts
    THEN accts
    ELSE accts @@ (client_id :> UserAccount_new(client_id))

\* self.actions.get(&client_id).and_then(|acts| acts.get(&tx_id))
get_bucket(acts, client_id, tx_id) ==
    IF client_id \in DOMAIN acts /\ tx_id \in DOMAIN acts[client_id]
    THEN Some(acts[client_id][tx_id])
    ELSE None

IsPosting(a) == a.tx_type = Deposit \/ a.tx_type = Withdrawal

\* Variant of find_amount that takes the last Deposit/Withdrawal of the bucket.
find_amount_last(bucket) ==
    LET idx == {i \in 1..Len(bucket) : IsPosting(bucket[i])}
        last == CHOOSE i \in idx : \A j \in idx : i >= j
    IN  IF idx = {} THEN 0 ELSE unwrap_or(bucket[last].amount, 0)

\* acts.iter().find(|a| Deposit or Withdrawal).and_then(|a| a.amount)
\*     .unwrap_or(Decimal::zero())
find_amount(bucket) ==
    LET idx == {i \in 1..Len(bucket) : IsPosting(bucket[i])}
        first == CHOOSE i \in idx : \A j \in idx : i <= j
    IN  IF idx = {} THEN 0 ELSE unwrap_or(bucket[first].amount, 0)

\* acts.iter().any(|a| a.tx_type == TxType::Dispute)
has_dispute(bucket) ==
    \E i \in 1..Len(bucket) : bucket[i].tx_type = Dispute

\* ---------------------------------------------------------------- handlers
\* Each handler is given the accounts map and the history as they are when
\* process_action calls it, and yields the accounts map it leaves behind.

\* Variant of process_deposit that stores the amount instead of adding it.
process_deposit_overwrite(accts, acts, action) ==
    LET created == get_or_create_account(accts, action.client_id)
        account == created[action.client_id]
        amount == unwrap_or(action.amount, 0)
    IN  [created EXCEPT ![action.client_id] =
            calculate_total([account EXCEPT !.available = amount])]

process_deposit(accts, acts, action) ==
    LET created == get_or_create_account(accts, action.client_id)
        account == created[action.client_id]
        amount == unwrap_or(action.amount, 0)
    IN  [created EXCEPT ![action.client_id] =
            calculate_total([account EXCEPT !.available = @ + amount])]

\* Variant of process_withdrawal without the sufficiency check.
process_withdrawal_unchecked(accts, acts, action) ==
    IF action.client_id \in DOMAIN accts
    THEN LET account == accts[action.client_id]
             amount == unwrap_or(action.amount, 0)
         IN  [accts EXCEPT ![action.client_id] =
                 calculate_total([account EXCEPT !.available = @ - amount])]
    ELSE accts

\* Variant of process_withdrawal that looks the account up with
\* get_or_create_account, as process_deposit does.
process_withdrawal_creates(accts, acts, action) ==
    LET created == get_or_create_account(accts, action.client_id)
        account == created[action.client_id]
        amount == unwrap_or(action.amount, 0)
    IN  IF account.available >= amount
        THEN [created EXCEPT ![action.client_id] =
                calculate_total([account EXCEPT !.available = @ - amount])]
        ELSE created

\* Variant of process_withdrawal that refuses to touch a locked account.
process_withdrawal_lock_enforced(accts, acts, action) ==
    IF action.client_id \in DOMAIN accts
    THEN LET account == accts[action.client_id]
             amount == unwrap_or(action.amount, 0)
         IN  IF account.available >= amount /\ ~account.locked
             THEN [accts EXCEPT ![action.client_id] =
                     calculate_total([account EXCEPT !.available = @ - amount])]
             ELSE accts
    ELSE accts

process_withdrawal(accts, acts, action) ==
    IF action.client_id \in DOMAIN accts
    THEN LET account == accts[action.client_id]
             amount == unwrap_or(action.amount, 0)
         IN  IF account.available >= amount
             THEN [accts EXCEPT ![action.client_id] =
                     calculate_total([account EXCEPT !.available = @ - amount])]
             ELSE accts
    ELSE accts

\* Variant of process_dispute that holds funds only when available covers
\* the amount, as process_withdrawal does.
process_dispute_checked(accts, acts, action) ==
    LET found == get_bucket(acts, action.client_id, action.tx_id)
    IN  IF found = None
        THEN accts
        ELSE LET amount == find_amount(found[1])
                 created == get_or_create_account(accts, action.client_id)
                 account == created[action.client_id]
             IN  IF account.available >= amount
                 THEN [created EXCEPT ![action.client_id] =
                         calculate_total([account EXCEPT
                             !.available = @ - amount,
                             !.held = @ + amount])]
                 ELSE created

\* Variant of process_dispute that looks the account up with get_mut, as
\* process_resolve does, and so never creates one.
process_dispute_existing_only(accts, acts, action) ==
    LET found == get_bucket(acts, action.client_id, action.tx_id)
    IN  IF found = None
        THEN accts
        ELSE LET amount == find_amount(found[1])
             IN  IF action.client_id \in DOMAIN accts
                 THEN [accts EXCEPT ![action.client_id] =
                         calculate_total([accts[action.client_id] EXCEPT
                             !.available = @ - amount,
                             !.held = @ + amount])]
                 ELSE accts

\* Variant of process_dispute that treats a missing bucket as an empty one
\* instead of returning.
process_dispute_no_return(accts, acts, action) ==
    LET found == get_bucket(acts, action.client_id, action.tx_id)
        amount == find_amount(unwrap_or(found, <<>>))
        created == get_or_create_account(accts, action.client_id)
        account == created[action.client_id]
    IN  [created EXCEPT ![action.client_id] =
            calculate_total([account EXCEPT
                !.available = @ - amount,
                !.held = @ + amount])]

\* Variant of process_dispute that locks the account while funds are held.
process_dispute_locks(accts, acts, action) ==
    LET found == get_bucket(acts, action.client_id, action.tx_id)
    IN  IF found = None
        THEN accts
        ELSE LET amount == find_amount(found[1])
                 created == get_or_create_account(accts, action.client_id)
                 account == created[action.client_id]
             IN  [created EXCEPT ![action.client_id] =
                     calculate_total([account EXCEPT
                         !.available = @ - amount,
                         !.held = @ + amount,
                         !.locked = TRUE])]

\* Variant of process_dispute that only looks for a Deposit in the bucket.
process_dispute_deposit_only(accts, acts, action) ==
    LET found == get_bucket(acts, action.client_id, action.tx_id)
    IN  IF found = None
        THEN accts
        ELSE LET deposits == SelectSeq(found[1],
                                       LAMBDA a : a.tx_type = Deposit)
                 amount == find_amount(deposits)
                 created == get_or_create_account(accts, action.client_id)
                 account == created[action.client_id]
             IN  [created EXCEPT ![action.client_id] =
                     calculate_total([account EXCEPT
                         !.available = @ - amount,
                         !.held = @ + amount])]

\* Variant of process_dispute that debits available without holding the funds.
process_dispute_debits(accts, acts, action) ==
    LET found == get_bucket(acts, action.client_id, action.tx_id)
    IN  IF found = None
        THEN accts
        ELSE LET amount == find_amount(found[1])
                 created == get_or_create_account(accts, action.client_id)
                 account == created[action.client_id]
             IN  [created EXCEPT ![action.client_id] =
                     calculate_total([account EXCEPT
                         !.available = @ - amount])]

\* Variant of process_dispute that looks the transaction up by its id alone
\* and holds the funds of every client that has it.
process_dispute_tx_owner(accts, acts, action) ==
    LET owners == {c \in DOMAIN acts : action.tx_id \in DOMAIN acts[c]}
    IN  [c \in DOMAIN accts |->
            IF c \in owners
            THEN LET amount == find_amount(acts[c][action.tx_id])
                 IN  calculate_total([accts[c] EXCEPT
                         !.available = @ - amount,
                         !.held = @ + amount])
            ELSE accts[c]]

process_dispute(accts, acts, action) ==
    LET found == get_bucket(acts, action.client_id, action.tx_id)
    IN  IF found = None
        THEN accts
        ELSE LET amount == find_amount(found[1])
                 created == get_or_create_account(accts, action.client_id)
                 account == created[action.client_id]
             IN  [created EXCEPT ![action.client_id] =
                     calculate_total([account EXCEPT
                         !.available = @ - amount,
                         !.held = @ + amount])]

\* Variant of process_resolve that credits available and keeps the funds held.
process_resolve_keeps_held(accts, acts, action) ==
    LET found == get_bucket(acts, action.client_id, action.tx_id)
    IN  IF found = None
        THEN accts
        ELSE IF ~has_dispute(found[1])
        THEN accts
        ELSE LET amount == find_amount(found[1])
             IN  IF action.client_id \in DOMAIN accts
                 THEN [accts EXCEPT ![action.client_id] =
                         calculate_total([accts[action.client_id] EXCEPT
                             !.available = @ + amount])]
                 ELSE accts

\* Variant of process_resolve that clears the lock when funds are released.
process_resolve_unlocks(accts, acts, action) ==
    LET found == get_bucket(acts, action.client_id, action.tx_id)
    IN  IF found = None
        THEN accts
        ELSE IF ~has_dispute(found[1])
        THEN accts
        ELSE LET amount == find_amount(found[1])
             IN  IF action.client_id \in DOMAIN accts
                 THEN [accts EXCEPT ![action.client_id] =
                         calculate_total([accts[action.client_id] EXCEPT
                             !.held = @ - amount,
                             !.available = @ + amount,
                             !.locked = FALSE])]
                 ELSE accts

\* Variant of process_resolve without the has_dispute check.
process_resolve_unchecked(accts, acts, action) ==
    LET found == get_bucket(acts, action.client_id, action.tx_id)
    IN  IF found = None
        THEN accts
        ELSE LET amount == find_amount(found[1])
             IN  IF action.client_id \in DOMAIN accts
                 THEN [accts EXCEPT ![action.client_id] =
                         calculate_total([accts[action.client_id] EXCEPT
                             !.held = @ - amount,
                             !.available = @ + amount])]
                 ELSE accts

\* Variant of process_resolve that releases the held funds without
\* returning them to available.
process_resolve_held_only(accts, acts, action) ==
    LET found == get_bucket(acts, action.client_id, action.tx_id)
    IN  IF found = None
        THEN accts
        ELSE IF ~has_dispute(found[1])
        THEN accts
        ELSE LET amount == find_amount(found[1])
             IN  IF action.client_id \in DOMAIN accts
                 THEN [accts EXCEPT ![action.client_id] =
                         calculate_total([accts[action.client_id] EXCEPT
                             !.held = @ - amount])]
                 ELSE accts

process_resolve(accts, acts, action) ==
    LET found == get_bucket(acts, action.client_id, action.tx_id)
    IN  IF found = None
        THEN accts
        ELSE IF ~has_dispute(found[1])
        THEN accts
        ELSE LET amount == find_amount(found[1])
             IN  IF action.client_id \in DOMAIN accts
                 THEN [accts EXCEPT ![action.client_id] =
                         calculate_total([accts[action.client_id] EXCEPT
                             !.held = @ - amount,
                             !.available = @ + amount])]
                 ELSE accts

\* Variant of process_chargeback that removes the held funds only.
process_chargeback_held_only(accts, acts, action) ==
    LET found == get_bucket(acts, action.client_id, action.tx_id)
    IN  IF found = None
        THEN accts
        ELSE IF ~has_dispute(found[1])
        THEN accts
        ELSE LET amount == find_amount(found[1])
             IN  IF action.client_id \in DOMAIN accts
                 THEN [accts EXCEPT ![action.client_id] =
                         calculate_total([accts[action.client_id] EXCEPT
                             !.held = @ - amount,
                             !.locked = TRUE])]
                 ELSE accts

\* Variant of process_chargeback that forgets to lock the account.
process_chargeback_no_lock(accts, acts, action) ==
    LET found == get_bucket(acts, action.client_id, action.tx_id)
    IN  IF found = None
        THEN accts
        ELSE IF ~has_dispute(found[1])
        THEN accts
        ELSE LET amount == find_amount(found[1])
             IN  IF action.client_id \in DOMAIN accts
                 THEN [accts EXCEPT ![action.client_id] =
                         calculate_total([accts[action.client_id] EXCEPT
                             !.held = @ - amount,
                             !.available = @ - amount])]
                 ELSE accts

process_chargeback(accts, acts, action) ==
    LET found == get_bucket(acts, action.client_id, action.tx_id)
    IN  IF found = None
        THEN accts
        ELSE IF ~has_dispute(found[1])
        THEN accts
        ELSE LET amount == find_amount(found[1])
             IN  IF action.client_id \in DOMAIN accts
                 THEN [accts EXCEPT ![action.client_id] =
                         calculate_total([accts[action.client_id] EXCEPT
                             !.held = @ - amount,
                             !.available = @ - amount,
                             !.locked = TRUE])]
                 ELSE accts

\* Variant of record_action that stores the action as the bucket's only
\* entry (insert instead of entry().or_insert_with().push()).
record_action_insert(acts, action) ==
    LET c == action.client_id
        t == action.tx_id
        byTx == IF c \in DOMAIN acts THEN acts[c] ELSE <<>>
        byTx2 == IF t \in DOMAIN byTx
                 THEN [byTx EXCEPT ![t] = <<action>>]
                 ELSE byTx @@ (t :> <<action>>)
    IN  IF c \in DOMAIN acts
        THEN [acts EXCEPT ![c] = byTx2]
        ELSE acts @@ (c :> byTx2)

\* self.actions.entry(client_id).or_insert_with(HashMap::new)
\*     .entry(tx_id).or_insert_with(Vec::new).push(action)
record_action(acts, action) ==
    LET c == action.client_id
        t == action.tx_id
        byTx == IF c \in DOMAIN acts THEN acts[c] ELSE <<>>
        bucket == IF t \in DOMAIN byTx THEN byTx[t] ELSE <<>>
        byTx2 == IF t \in DOMAIN byTx
                 THEN [byTx EXCEPT ![t] = Append(bucket, action)]
                 ELSE byTx @@ (t :> Append(bucket, action))
    IN  IF c \in DOMAIN acts
        THEN [acts EXCEPT ![c] = byTx2]
        ELSE acts @@ (c :> byTx2)

\* The match of process_action: the accounts map after the handler ran.
dispatch(accts, acts, action) ==
    CASE action.tx_type = Deposit    -> process_deposit(accts, acts, action)
      [] action.tx_type = Withdrawal -> process_withdrawal(accts, acts, action)
      [] action.tx_type = Dispute    -> process_dispute(accts, acts, action)
      [] action.tx_type = Resolve    -> process_resolve(accts, acts, action)
      [] action.tx_type = Chargeback -> process_chargeback(accts, acts, action)

\* ---------------------------------------------------------------- actions
\* PaymentEngine::new()
Init ==
    /\ accounts = <<>>
    /\ actions = <<>>
    /\ delivered = 0
    /\ origin = <<>>
    /\ yielded = <<>>
    /\ diagnostics = 0
    /\ decimal = [mantissa |-> 0, scale |-> 0]
    /\ written = None
    /\ pending = <<>>
    /\ pc = "loop"
    /\ main_accounts = <<>>
    /\ main_actions = <<>>
    /\ main_diagnostics = 0

\* PaymentEngine::process_action(action): the handler, then the push.
process_action(action) ==
    /\ delivered < MaxEvents
    /\ accounts' = dispatch(accounts, actions, action)
    /\ actions' = record_action(actions, action)
    /\ delivered' = delivered + 1

\* The engine driven directly with events, as the unit tests do.
Next ==
    \E action \in UserTransactions :
        /\ process_action(action)
        /\ UNCHANGED <<source_vars, sink_vars, driver_vars, binary_vars>>

Spec == Init /\ [][Next]_vars

\* ============================================================== event source
\* CsvDataSource::read_transactions (src/src/data_sources/csv.rs): the csv
\* reader's deserializing iterator hands one Result per record of the origin,
\* in origin order, and filter_map keeps or drops it.

\* Result<UserTransactions, csv::Error> as a pair: a tag and the payload.
Ok(action) == <<"Ok", action>>
Err(e) == <<"Err", e>>

\* What deserializing the records of an origin file can give: well-formed
\* records with and without an amount, an unknown type and a bad client id.
SourceResults ==
    { Ok([tx_type |-> Deposit, client_id |-> 1, tx_id |-> 1,
          amount |-> Some(100)]),
      Ok([tx_type |-> Dispute, client_id |-> 1, tx_id |-> 1,
          amount |-> None]),
      Ok([tx_type |-> Withdrawal, client_id |-> 2, tx_id |-> 1,
          amount |-> Some(50)]),
      Err("unknown variant"),
      Err("invalid digit") }

\* Variant of the closure that also drops records without an amount.
filter_map_closure_requires_amount(result) ==
    IF result[1] = "Ok" /\ result[2].amount # None
    THEN Some(result[2])
    ELSE None

\* The closure given to filter_map: Ok(action) => Some(action), Err(e) => None.
filter_map_closure(result) ==
    IF result[1] = "Ok" THEN Some(result[2]) ELSE None

\* One pull of the driver loop on the iterator: the reader deserializes the
\* next record of the origin; a Some item is yielded and the loop body calls
\* process_action on it; for None the closure has printed one line to stderr
\* and the iterator goes on to the next record.
read_transactions_next(result) ==
    LET item == filter_map_closure(result) IN
    /\ Len(origin) < MaxEvents
    /\ origin' = Append(origin, result)
    /\ IF item # None
       THEN /\ yielded' = Append(yielded, item[1])
            /\ diagnostics' = diagnostics
            /\ process_action(item[1])
       ELSE /\ yielded' = yielded
            /\ diagnostics' = diagnostics + 1
            /\ UNCHANGED engine_vars
    /\ UNCHANGED sink_vars

SourceNext ==
    \E result \in SourceResults :
        /\ read_transactions_next(result)
        /\ UNCHANGED <<driver_vars, binary_vars>>

\* The engine fed from a CsvDataSource.
SourceSpec == Init /\ [][SourceNext]_vars

\* ================================================================ driver loop
\* tests/integration_tests.rs: `for action in actions { process_action }` over
\* the iterator of a CsvDataSource whose origin is a finite file.

\* The origin files: every sequence of up to MaxEvents records.
OriginFiles == UNION { [1..n -> SourceResults] : n \in 0..MaxEvents }

DriverInit ==
    /\ accounts = <<>>
    /\ actions = <<>>
    /\ delivered = 0
    /\ origin = <<>>
    /\ yielded = <<>>
    /\ diagnostics = 0
    /\ decimal = [mantissa |-> 0, scale |-> 0]
    /\ written = None
    /\ pending \in OriginFiles
    /\ pc = "loop"
    /\ main_accounts = <<>>
    /\ main_actions = <<>>
    /\ main_diagnostics = 0

\* Variant of the loop that loses the record after the one it reads.
for_action_in_actions_skips ==
    /\ pc = "loop"
    /\ pending # <<>>
    /\ read_transactions_next(Head(pending))
    /\ pending' = SubSeq(pending, 3, Len(pending))
    /\ pc' = pc
    /\ UNCHANGED binary_vars

\* The loop reads the next record of the file through the iterator and, for
\* a well-formed one, runs the body: engine.process_action(action).
for_action_in_actions ==
    /\ pc = "loop"
    /\ pending # <<>>
    /\ read_transactions_next(Head(pending))
    /\ pending' = Tail(pending)
    /\ pc' = pc
    /\ UNCHANGED binary_vars

\* The iterator returns None at the end of the file and the loop is left.
loop_exit ==
    /\ pc = "loop"
    /\ pending = <<>>
    /\ pc' = "done"
    /\ UNCHANGED <<engine_vars, source_vars, sink_vars, pending, binary_vars>>

DriverNext == for_action_in_actions \/ loop_exit

\* The loop is sequential code: it always takes its next step.
DriverSpec == DriverInit /\ [][DriverNext]_vars /\ WF_vars(DriverNext)

\* ============================================================ binary's engine
\* PaymentEngine in src/src/main.rs: one process_action whose match arms do
\* the work.  An arm is given the accounts map and the history of that engine
\* and yields the accounts map it leaves behind.

\* TxAction::Deposit
main_deposit(accts, acts, action) ==
    LET created == get_or_create_account(accts, action.client_id)
        account == created[action.client_id]
    IN  [created EXCEPT ![action.client_id] =
            calculate_total([account EXCEPT
                !.available = @ + unwrap_or(action.amount, 0)])]

\* TxAction::Withdrawal
main_withdrawal(accts, acts, action) ==
    IF action.client_id \in DOMAIN accts
    THEN LET account == accts[action.client_id]
             amount == unwrap_or(action.amount, 0)
         IN  IF account.available >= amount
             THEN [accts EXCEPT ![action.client_id] =
                     calculate_total([account EXCEPT !.available = @ - amount])]
             ELSE accts
    ELSE accts

\* TxAction::Dispute: only for an existing account; the amount is that of
\* the last entry of the bucket.
main_dispute(accts, acts, action) ==
    IF action.client_id \in DOMAIN accts
    THEN LET found == get_bucket(acts, action.client_id, action.tx_id)
         IN  IF found = None
             THEN accts
             ELSE LET bucket == found[1]
                      amount == IF bucket = <<>> THEN 0
                                ELSE unwrap_or(bucket[Len(bucket)].amount, 0)
                  IN  [accts EXCEPT ![action.client_id] =
                          calculate_total([accts[action.client_id] EXCEPT
                              !.available = @ - amount,
                              !.held = @ + amount])]
    ELSE accts

\* actions.iter().find(|action| action.tx_action == TxAction::Deposit)
main_find_deposit(bucket) ==
    LET idx == {i \in 1..Len(bucket) : bucket[i].tx_type = Deposit}
    IN  IF idx = {} THEN None
        ELSE Some(bucket[CHOOSE i \in idx : \A j \in idx : i <= j])

\* TxAction::Resolve: existing account, a Dispute in the bucket, and a
\* Deposit in the bucket, whose amount is released.
main_resolve(accts, acts, action) ==
    IF action.client_id \in DOMAIN accts
    THEN LET found == get_bucket(acts, action.client_id, action.tx_id)
         IN  IF found = None
             THEN accts
             ELSE IF has_dispute(found[1]) /\ main_find_deposit(found[1]) # None
             THEN LET amount ==
                          unwrap_or(main_find_deposit(found[1])[1].amount, 0)
                  IN  [accts EXCEPT ![action.client_id] =
                          calculate_total([accts[action.client_id] EXCEPT
                              !.held = @ - amount,
                              !.available = @ + amount])]
             ELSE accts
    ELSE accts

\* TxAction::ChargeBack: as Resolve, taking the amount from both balances and
\* locking the account.
main_chargeback(accts, acts, action) ==
    IF action.client_id \in DOMAIN accts
    THEN LET found == get_bucket(acts, action.client_id, action.tx_id)
         IN  IF found = None
             THEN accts
             ELSE IF has_dispute(found[1]) /\ main_find_deposit(found[1]) # None
             THEN LET amount ==
                          unwrap_or(main_find_deposit(found[1])[1].amount, 0)
                      charged == calculate_total([accts[action.client_id] EXCEPT
                                     !.held = @ - amount,
                                     !.available = @ - amount])
                  IN  [accts EXCEPT ![action.client_id] =
                          [charged EXCEPT !.locked = TRUE]]
             ELSE accts
    ELSE accts

\* The `None => return` of the Dispute, Resolve and ChargeBack arms leaves
\* process_action itself, before the push on the history.
main_returns(accts, acts, action) ==
    /\ action.tx_type \in {Dispute, Resolve, Chargeback}
    /\ action.client_id \in DOMAIN accts
    /\ get_bucket(acts, action.client_id, action.tx_id) = None

main_dispatch(accts, acts, action) ==
    CASE action.tx_type = Deposit -> main_deposit(accts, acts, action)
      [] action.tx_type = Withdrawal -> main_withdrawal(accts, acts, action)
      [] action.tx_type = Dispute -> main_dispute(accts, acts, action)
      [] action.tx_type = Resolve -> main_resolve(accts, acts, action)
      [] action.tx_type = Chargeback -> main_chargeback(accts, acts, action)

\* main.rs PaymentEngine::process_action(action)
main_process_action(action) ==
    /\ main_accounts' = main_dispatch(main_accounts, main_actions, action)
    /\ main_actions' = IF main_returns(main_accounts, main_actions, action)
                       THEN main_actions
                       ELSE record_action(main_actions, action)

\* The records of an origin file, as text columns: the type column holds one
\* of the names the two programs know; client, tx and amount are well-formed.
TypeTexts ==
    {"deposit", "withdrawal", "dispute", "resolve", "chargeback",
     "charge_back"}

OriginRecords ==
    [type : {"deposit", "withdrawal"}, client : ClientIds, tx : TxIds,
     amount : PostingAmounts]
    \cup
    [type : TypeTexts \ {"deposit", "withdrawal"}, client : ClientIds,
     tx : TxIds, amount : {None}]

\* lib.rs: deserializing a record as UserTransactions.  TxType is read under
\* rename_all = "snake_case": deposit, withdrawal, dispute, resolve,
\* chargeback; any other type is an unknown variant.
deserialize(record) ==
    IF record.type \in TxType
    THEN Ok([tx_type |-> record.type, client_id |-> record.client,
             tx_id |-> record.tx, amount |-> record.amount])
    ELSE Err("unknown variant")

\* main.rs: deserializing a record as UserActions.  The variant ChargeBack
\* is read as charge_back, so chargeback is an unknown variant here.  The
\* event it gives is written with the library's names.
main_deserialize(record) ==
    IF record.type = "charge_back"
    THEN Ok([tx_type |-> Chargeback, client_id |-> record.client,
             tx_id |-> record.tx, amount |-> record.amount])
    ELSE IF record.type \in {Deposit, Withdrawal, Dispute, Resolve}
    THEN Ok([tx_type |-> record.type, client_id |-> record.client,
             tx_id |-> record.tx, amount |-> record.amount])
    ELSE Err("unknown variant")

\* Both programs read the same record of the same origin file.  The library's
\* driver gets it through the filter_map closure and applies what is yielded;
\* main's loop matches on the Result: Ok is applied, Err prints a line.
both_read_record(record) ==
    LET item == filter_map_closure(deserialize(record))
        result == main_deserialize(record)
    IN  /\ delivered + diagnostics < MaxEvents
        /\ IF item # None
           THEN /\ process_action(item[1])
                /\ diagnostics' = diagnostics
           ELSE /\ UNCHANGED engine_vars
                /\ diagnostics' = diagnostics + 1
        /\ IF result[1] = "Ok"
           THEN /\ main_process_action(result[2])
                /\ main_diagnostics' = main_diagnostics
           ELSE /\ UNCHANGED <<main_accounts, main_actions>>
                /\ main_diagnostics' = main_diagnostics + 1
        /\ UNCHANGED <<origin, yielded, sink_vars, driver_vars>>

BothNext == \E record \in OriginRecords : both_read_record(record)

BothSpec == Init /\ [][BothNext]_vars

\* ============================================================= account sink
\* The two serialize_to_four_places functions (src/src/lib.rs and
\* src/src/main.rs) applied to one Decimal field of an account record.
\*
\* Here a Decimal keeps its representation: an integer mantissa and a scale,
\* the value being mantissa / 10^scale.  What is written is modelled digit by
\* digit: a sign, the digits before the point and the digits after it.

\* Largest scale of the Decimal values rendered.
MaxScale == 6

\* format!("{:.4}", t) in the library.
FourPlaces == 4

\* t.round_sf(4) in the binary.
SigFigs == 4

RECURSIVE Pow10(_)
Pow10(k) == IF k = 0 THEN 1 ELSE 10 * Pow10(k - 1)

Abs(n) == IF n < 0 THEN -n ELSE n

\* Number of decimal digits of a mantissa n >= 0; none for zero.
RECURSIVE mantissa_sf(_)
mantissa_sf(n) == IF n = 0 THEN 0 ELSE 1 + mantissa_sf(n \div 10)

\* n / d for n >= 0, d > 0, rounded to the nearest integer, a midpoint going
\* to the even neighbour (RoundingStrategy::MidpointNearestEven).
MidpointNearestEven(n, d) ==
    LET q == n \div d
        r == n % d
    IN  IF 2 * r > d \/ (2 * r = d /\ q % 2 = 1) THEN q + 1 ELSE q

\* Decimal::round_dp(dp)
round_dp(d, dp) ==
    IF d.scale <= dp THEN d
    ELSE LET rounded == MidpointNearestEven(Abs(d.mantissa),
                                            Pow10(d.scale - dp))
         IN  [mantissa |-> IF d.mantissa < 0 THEN -rounded ELSE rounded,
              scale |-> dp]

\* Decimal::round_sf(digits): Some(self rounded to `digits` significant
\* figures).  Fewer figures than asked for are padded with zeros by raising
\* the scale; more are rounded away, in the integral part too when the
\* digits to drop outnumber the scale.
round_sf(d, digits) ==
    LET sf == mantissa_sf(Abs(d.mantissa))
        diff == sf - digits
    IN  IF d.mantissa = 0 \/ digits = 0
        THEN Some([mantissa |-> 0, scale |-> 0])
        ELSE IF digits > sf
        THEN Some([mantissa |-> d.mantissa * Pow10(digits - sf),
                   scale |-> d.scale + digits - sf])
        ELSE IF digits < sf
        THEN IF diff > d.scale
             THEN LET rounded == MidpointNearestEven(Abs(d.mantissa),
                                                     Pow10(diff))
                                 * Pow10(diff - d.scale)
                  IN  Some([mantissa |->
                                IF d.mantissa < 0 THEN -rounded ELSE rounded,
                            scale |-> 0])
             ELSE Some(round_dp(d, d.scale - diff))
        ELSE Some(d)

\* The decimal digits of n >= 0, most significant first.
RECURSIVE DigitsOf(_)
DigitsOf(n) == IF n < 10 THEN <<n>> ELSE Append(DigitsOf(n \div 10), n % 10)

\* <Decimal as Display>::fmt without a precision: the integral digits and
\* exactly `scale` digits after the point.
to_string(d) ==
    LET a == Abs(d.mantissa)
        p == Pow10(d.scale)
    IN  [negative |-> d.mantissa < 0,
         whole |-> DigitsOf(a \div p),
         frac |-> [i \in 1..d.scale |-> ((a % p) \div Pow10(d.scale - i)) % 10]]

\* <Decimal as Display>::fmt with a precision: the fraction is padded with
\* zeros or cut to `precision` digits.  Whether the cut rounds or truncates
\* is decided inside the decimal crate; the values rendered below are those
\* on which both give the same digits.
format_precision(d, precision) ==
    IF d.scale <= precision
    THEN to_string([mantissa |-> d.mantissa * Pow10(precision - d.scale),
                    scale |-> precision])
    ELSE to_string(round_dp(d, precision))

\* What a field of the output is when serialize_none is called.
EmptyField == [negative |-> FALSE, whole |-> <<>>, frac |-> <<>>]

\* lib.rs: serialize_str(&format!("{:.4}", t))
serialize_to_four_places(t) == format_precision(t, FourPlaces)

\* main.rs: serialize_some(&t.round_sf(4)); the Option<Decimal> is written
\* as the Decimal's string, or as an empty field for None.
main_serialize_to_four_places(t) ==
    LET four_place_decimal == round_sf(t, SigFigs)
    IN  IF four_place_decimal = None
        THEN EmptyField
        ELSE to_string(four_place_decimal[1])

\* The digits cut by a rendering to `places` fractional digits are below one
\* half of the last digit kept, and so are the digits cut by a rounding to
\* `digits` significant figures: every rounding rule gives the same result.
Unambiguous(d, places, digits) ==
    LET a == Abs(d.mantissa)
        cut == Pow10(d.scale - places)
        diff == mantissa_sf(a) - digits
    IN  /\ d.scale > places => 2 * (a % cut) < cut
        /\ diff > 0 => 2 * (a % Pow10(diff)) # Pow10(diff)

\* Balances an account can hold after deposits and withdrawals of amounts
\* written with up to MaxScale fractional digits.  The long mantissas come
\* with four or more fractional digits, as in 12345.6789, which keeps every
\* product below within the range of the model's integers.
Mantissas == {0, 5, 15, -15, 1000, 12345, 100001}
LongMantissas == {20000001, 123456789, -123456789}

DecimalInputs ==
    { d \in [mantissa : Mantissas, scale : 0..MaxScale]
             \cup [mantissa : LongMantissas, scale : FourPlaces..MaxScale] :
          Unambiguous(d, FourPlaces, SigFigs) }

\* An account field about to be written.
RenderInit ==
    /\ accounts = <<>>
    /\ actions = <<>>
    /\ delivered = 0
    /\ origin = <<>>
    /\ yielded = <<>>
    /\ diagnostics = 0
    /\ decimal \in DecimalInputs
    /\ written = None
    /\ pending = <<>>
    /\ pc = "loop"
    /\ main_accounts = <<>>
    /\ main_actions = <<>>
    /\ main_diagnostics = 0

\* CsvDataSink::write_accounts: writer.serialize(account) with the library's
\* UserAccount.
write_accounts ==
    /\ written = None
    /\ written' = Some([path |-> "lib",
                        field |-> serialize_to_four_places(decimal)])
    /\ UNCHANGED <<engine_vars, source_vars, decimal, driver_vars, binary_vars>>

\* main: wtr.serialize(account) with the binary's UserAccount.
main_write_accounts ==
    /\ written = None
    /\ written' = Some([path |-> "main",
                        field |-> main_serialize_to_four_places(decimal)])
    /\ UNCHANGED <<engine_vars, source_vars, decimal, driver_vars, binary_vars>>

RenderNext == write_accounts \/ main_write_accounts

RenderSpec == RenderInit /\ [][RenderNext]_vars

\* ================================================================ properties
\* Vocabulary shared by the properties below.

\* The history bucket of (client_id, tx_id); empty when none exists yet.
Bucket(acts, client_id, tx_id) ==
    unwrap_or(get_bucket(acts, client_id, tx_id), <<>>)

\* This step is process_action(e): e is what the step pushed on the history.
Applied(e) == actions' = record_action(actions, e)

\* The events a step can have applied: the last entry of each bucket after the
\* step.  Applied(e) holds of no other event, as the push appends e to its
\* bucket, so a property of the step quantifies over these instead of over
\* all of UserTransactions.
StepEvents ==
    UNION { { actions'[c][t][Len(actions'[c][t])] : t \in DOMAIN actions'[c] } :
            c \in DOMAIN actions' }

References == {Dispute, Resolve, Chargeback}

HasPosting(bucket) == \E i \in 1..Len(bucket) : IsPosting(bucket[i])

\* Amount of the first Deposit/Withdrawal of a bucket, scanning from the head.
RECURSIVE PostedAmount(_)
PostedAmount(bucket) ==
    IF bucket = <<>> THEN 0
    ELSE IF Head(bucket).tx_type \in {Deposit, Withdrawal}
         THEN unwrap_or(Head(bucket).amount, 0)
         ELSE PostedAmount(Tail(bucket))

Tx(type, client_id, tx_id, amount) ==
    [tx_type |-> type, client_id |-> client_id, tx_id |-> tx_id,
     amount |-> amount]

\* The history holds exactly one bucket, (client_id, tx_id), with these events:
\* they are all the engine was fed, in this order.
OnlyBucket(client_id, tx_id, events) ==
    actions = (client_id :> (tx_id :> events))

\* Every account that exists before the step is the same after it.
ExistingAccountsUnchanged ==
    \A c \in DOMAIN accounts : c \in DOMAIN accounts' /\ accounts'[c] = accounts[c]

\* ---------------------------------------------------------------- C1
\* C1: after every process_action call, every account in the accounts map
\* satisfies total = available + held.
C1_TotalIsAvailablePlusHeld ==
    \A c \in DOMAIN accounts :
        accounts[c].total = accounts[c].available + accounts[c].held

\* An account with funds on both sides of the sum.
C1_Witness ==
    \E c \in DOMAIN accounts :
        /\ accounts[c].available # 0
        /\ accounts[c].held # 0
        /\ accounts[c].total # accounts[c].available

\* ---------------------------------------------------------------- C2
\* C2: locked is monotonic: an account that is locked before a process_action
\* call, of any event kind, still exists and is locked after it.
C2_LockedMonotonic ==
    [][\A c \in DOMAIN accounts :
          accounts[c].locked => (c \in DOMAIN accounts' /\ accounts'[c].locked)]_vars

\* A locked account whose bucket received a further event after the
\* chargeback that had a dispute before it.
C2_Witness ==
    \E c \in DOMAIN accounts, t \in TxIds :
        LET b == Bucket(actions, c, t) IN
        /\ accounts[c].locked
        /\ \E i \in 1..Len(b) :
              /\ b[i].tx_type = Chargeback
              /\ has_dispute(SubSeq(b, 1, i - 1))
              /\ i < Len(b)

\* ---------------------------------------------------------------- C3
\* C3: a Dispute, Resolve or Chargeback whose (clientId, txId) bucket holds no
\* Deposit or Withdrawal is a no-op: the accounts map is unchanged (no field
\* changes, no account is created), also when earlier Dispute/Resolve/
\* Chargeback events of that unknown txId were recorded.
C3_UnknownTxIsNoOp ==
    [][\A e \in StepEvents :
          ( /\ e.tx_type \in References
            /\ Applied(e)
            /\ ~HasPosting(Bucket(actions, e.client_id, e.tx_id)) )
          => accounts' = accounts]_vars

\* ---------------------------------------------------------------- C4
\* C4: a Resolve or Chargeback whose (clientId, txId) bucket holds no earlier
\* Dispute leaves available, held, total and locked of every account
\* unchanged.
C4_NoDisputeIsNoOp ==
    [][\A e \in StepEvents :
          ( /\ e.tx_type \in {Resolve, Chargeback}
            /\ Applied(e)
            /\ ~has_dispute(Bucket(actions, e.client_id, e.tx_id)) )
          => accounts' = accounts]_vars

\* A Resolve or Chargeback was applied to a bucket that held a posting with
\* a non-zero amount but no Dispute, for a client that has an account.
C4_Witness ==
    \E c \in DOMAIN accounts, t \in TxIds :
        LET b == Bucket(actions, c, t) IN
        \E i \in 1..Len(b) :
            /\ b[i].tx_type \in {Resolve, Chargeback}
            /\ ~has_dispute(SubSeq(b, 1, i - 1))
            /\ PostedAmount(SubSeq(b, 1, i - 1)) # 0

\* ---------------------------------------------------------------- C5
\* C5: a duplicated Dispute, Resolve or Chargeback (its kind is already
\* recorded in the same (clientId, txId) bucket) is a no-op: available, held,
\* total and locked of every account are unchanged.
C5_DuplicateIsNoOp ==
    [][\A e \in StepEvents :
          ( /\ e.tx_type \in References
            /\ Applied(e)
            /\ LET b == Bucket(actions, e.client_id, e.tx_id) IN
               \E i \in 1..Len(b) : b[i].tx_type = e.tx_type )
          => ExistingAccountsUnchanged]_vars

\* ---------------------------------------------------------------- C6
\* C6: Resolved and ChargedBack are terminal: once a bucket has seen a
\* Deposit/Withdrawal, then a Dispute, then a Resolve or Chargeback, no later
\* Dispute, Resolve or Chargeback of that (clientId, txId) changes any account
\* field.
Terminal(bucket) ==
    \E i, j, k \in 1..Len(bucket) :
        /\ i < j /\ j < k
        /\ IsPosting(bucket[i])
        /\ bucket[j].tx_type = Dispute
        /\ bucket[k].tx_type \in {Resolve, Chargeback}

C6_TerminalIsNoOp ==
    [][\A e \in StepEvents :
          ( /\ e.tx_type \in References
            /\ Applied(e)
            /\ Terminal(Bucket(actions, e.client_id, e.tx_id)) )
          => ExistingAccountsUnchanged]_vars

\* ---------------------------------------------------------------- C7
\* The engine was fed exactly deposit(1,1,100.0), dispute(1,1),
\* chargeback(1,1).
C7_Scenario ==
    OnlyBucket(1, 1, << Tx(Deposit, 1, 1, Some(100)),
                        Tx(Dispute, 1, 1, None),
                        Tx(Chargeback, 1, 1, None) >>)

\* C7 as stated: deposit(1,1,100.0), dispute(1,1), chargeback(1,1) from an
\* empty engine yields available = 0, held = 0, total = 0, locked = true.
C7_ScenarioAsStated ==
    C7_Scenario =>
        /\ 1 \in DOMAIN accounts
        /\ accounts[1].available = 0
        /\ accounts[1].held = 0
        /\ accounts[1].total = 0
        /\ accounts[1].locked

\* C7 amended: deposit(1,1,100.0), dispute(1,1), chargeback(1,1) from an
\* empty engine yields available = -100, held = 0, total = -100,
\* locked = true.
C7_ScenarioAmended ==
    C7_Scenario =>
        /\ 1 \in DOMAIN accounts
        /\ accounts[1].available = -100
        /\ accounts[1].held = 0
        /\ accounts[1].total = -100
        /\ accounts[1].locked

\* The scenario has run to its end.
C7_Witness == C7_Scenario /\ delivered = 3 /\ DOMAIN accounts = {1}

\* ---------------------------------------------------------------- C8
\* C8: a Chargeback whose bucket holds a prior Dispute and a Deposit/
\* Withdrawal of amount a (the first one of the bucket), for an existing
\* account, decreases held by a and available by a, so total by 2a, and sets
\* locked; deposit(a), dispute, chargeback on a fresh account ends with
\* held = 0, total = -a, locked = true.
C8_ChargebackStep ==
    \A e \in StepEvents :
        LET b == Bucket(actions, e.client_id, e.tx_id)
            a == PostedAmount(b)
            c == e.client_id
        IN  ( /\ e.tx_type = Chargeback
              /\ Applied(e)
              /\ has_dispute(b)
              /\ HasPosting(b)
              /\ c \in DOMAIN accounts )
            => /\ c \in DOMAIN accounts'
               /\ accounts'[c].held = accounts[c].held - a
               /\ accounts'[c].available = accounts[c].available - a
               /\ accounts'[c].total = accounts[c].total - 2 * a
               /\ accounts'[c].locked

C8_FreshAccount ==
    \A c \in ClientIds, t \in TxIds, amt \in PostingAmounts :
        OnlyBucket(c, t, << Tx(Deposit, c, t, amt), Tx(Dispute, c, t, None),
                            Tx(Chargeback, c, t, None) >>)
        => /\ c \in DOMAIN accounts
           /\ accounts[c].held = 0
           /\ accounts[c].total = 0 - amt[1]
           /\ accounts[c].locked

C8_ChargebackRule == [][C8_ChargebackStep]_vars /\ []C8_FreshAccount

\* A chargeback of a non-zero amount was the last event of a bucket that held
\* a posting and a dispute, and the client's account is locked with other
\* funds still in it.
C8_Witness ==
    \E c \in DOMAIN accounts, t \in TxIds :
        LET b == Bucket(actions, c, t) IN
        /\ Len(b) >= 3
        /\ b[Len(b)].tx_type = Chargeback
        /\ has_dispute(SubSeq(b, 1, Len(b) - 1))
        /\ PostedAmount(b) # 0
        /\ accounts[c].locked
        /\ accounts[c].total # 0 - PostedAmount(b)

\* ---------------------------------------------------------------- C9
\* C9: a Withdrawal never drives available negative by itself: after a
\* Withdrawal the client's available is its previous value or is >= 0, and
\* a non-negative available stays non-negative.
C9_WithdrawalNeverOverdraws ==
    [][\A e \in StepEvents :
          ( /\ e.tx_type = Withdrawal
            /\ Applied(e)
            /\ e.client_id \in DOMAIN accounts )
          => LET before == accounts[e.client_id].available
                 after == accounts'[e.client_id].available
             IN  /\ after = before \/ after >= 0
                 /\ before >= 0 => after >= 0]_vars

\* A withdrawal larger than the balance was fed after a deposit and dropped.
C9_Witness ==
    /\ OnlyBucket(1, 1, << Tx(Deposit, 1, 1, Some(50)),
                           Tx(Withdrawal, 1, 1, Some(100)) >>)
    /\ accounts[1].available = 50

\* ---------------------------------------------------------------- C10
\* C10: if the client's account exists and available >= amount, a Withdrawal
\* decreases available by amount and leaves held and locked unchanged;
\* otherwise the accounts map is unchanged and no account is created.
\* deposit(1,1,50.0), withdrawal(1,2,100.0) leaves available = 50.0.
C10_WithdrawalStep ==
    \A e \in StepEvents :
        LET c == e.client_id
            amount == unwrap_or(e.amount, 0)
        IN  (e.tx_type = Withdrawal /\ Applied(e))
            => IF c \in DOMAIN accounts /\ accounts[c].available >= amount
               THEN /\ c \in DOMAIN accounts'
                    /\ accounts'[c].available = accounts[c].available - amount
                    /\ accounts'[c].held = accounts[c].held
                    /\ accounts'[c].locked = accounts[c].locked
               ELSE accounts' = accounts

C10_Scenario ==
    actions = (1 :> ( (1 :> << Tx(Deposit, 1, 1, Some(50)) >>)
                   @@ (2 :> << Tx(Withdrawal, 1, 2, Some(100)) >>) ))

C10_WithdrawalRule ==
    [][C10_WithdrawalStep]_vars
    /\ [](C10_Scenario => (1 \in DOMAIN accounts /\ accounts[1].available = 50))

\* The scenario has run: deposit 50 and a withdrawal of 100 that was dropped.
C10_Witness == C10_Scenario /\ accounts[1].total = 50 /\ DOMAIN accounts = {1}

\* ---------------------------------------------------------------- C11
\* The account of a client as a handler sees it through
\* get_or_create_account: the stored one, or a fresh one.
AccountOrNew(accts, c) ==
    IF c \in DOMAIN accts THEN accts[c] ELSE UserAccount_new(c)

\* C11: a Dispute whose (clientId, txId) bucket holds a Deposit or Withdrawal
\* of amount a (the first one of the bucket) decreases the client's available
\* by a and increases held by a, whatever available is (it may become
\* negative); locked is unchanged.
C11_DisputeRule ==
    [][\A e \in StepEvents :
          LET b == Bucket(actions, e.client_id, e.tx_id)
              a == PostedAmount(b)
              c == e.client_id
              before == AccountOrNew(accounts, c)
          IN  (e.tx_type = Dispute /\ Applied(e) /\ HasPosting(b))
              => /\ c \in DOMAIN accounts'
                 /\ accounts'[c].available = before.available - a
                 /\ accounts'[c].held = before.held + a
                 /\ accounts'[c].locked = before.locked]_vars

\* deposit 100, withdrawal 50, dispute of the deposit: available = -50,
\* held = 100, total = 50.
C11_Witness ==
    /\ actions = (1 :> ( (1 :> << Tx(Deposit, 1, 1, Some(100)),
                                  Tx(Dispute, 1, 1, None) >>)
                      @@ (2 :> << Tx(Withdrawal, 1, 2, Some(50)) >>) ))
    /\ accounts[1].available = -50
    /\ accounts[1].held = 100
    /\ accounts[1].total = 50
    /\ ~accounts[1].locked

\* ---------------------------------------------------------------- C12
\* The accounts map after process_action(first) and then
\* process_action(second), starting from the current state.
AfterTwo(first, second) ==
    dispatch(dispatch(accounts, actions, first),
             record_action(actions, first), second)

\* C12: in any reachable state where the bucket of (clientId, txId) holds a
\* Deposit, applying Dispute(clientId, txId) and then Resolve(clientId, txId)
\* returns the client's available, held, total and locked to their values
\* before the Dispute; deposit(1,1,100.0), dispute(1,1), resolve(1,1) gives
\* available = 100, held = 0, total = 100, locked = false.
C12_DisputeResolveRoundTrip ==
    /\ \A c \in ClientIds, t \in TxIds :
          (\E i \in 1..Len(Bucket(actions, c, t)) :
               Bucket(actions, c, t)[i].tx_type = Deposit)
          => LET after == AfterTwo(Tx(Dispute, c, t, None),
                                   Tx(Resolve, c, t, None))
             IN  /\ c \in DOMAIN accounts
                 /\ c \in DOMAIN after
                 /\ after[c].available = accounts[c].available
                 /\ after[c].held = accounts[c].held
                 /\ after[c].total = accounts[c].total
                 /\ after[c].locked = accounts[c].locked
    /\ OnlyBucket(1, 1, << Tx(Deposit, 1, 1, Some(100)),
                           Tx(Dispute, 1, 1, None),
                           Tx(Resolve, 1, 1, None) >>)
          => /\ accounts[1].available = 100
             /\ accounts[1].held = 0
             /\ accounts[1].total = 100
             /\ ~accounts[1].locked

\* A Dispute directly followed by a Resolve was applied to a bucket that
\* held a Deposit, for a client that has other funds as well.
C12_Witness ==
    \E c \in DOMAIN accounts, t \in TxIds :
        LET b == Bucket(actions, c, t) IN
        /\ Len(b) = 3
        /\ b[1].tx_type = Deposit
        /\ b[2].tx_type = Dispute
        /\ b[3].tx_type = Resolve
        /\ accounts[c].available # PostedAmount(b)
        /\ accounts[c].held = 0

\* ---------------------------------------------------------------- C13
RECURSIVE SumAmounts(_)
SumAmounts(bucket) ==
    IF bucket = <<>> THEN 0
    ELSE unwrap_or(Head(bucket).amount, 0) + SumAmounts(Tail(bucket))

RECURSIVE SumOverTx(_, _)
SumOverTx(c, txs) ==
    IF txs = {} THEN 0
    ELSE LET t == CHOOSE x \in txs : TRUE
         IN  SumAmounts(Bucket(actions, c, t)) + SumOverTx(c, txs \ {t})

\* Client c was referenced by Deposits only, and by at least one.
OnlyDeposits(c) ==
    /\ c \in DOMAIN actions
    /\ \A t \in TxIds :
          \A i \in 1..Len(Bucket(actions, c, t)) :
              Bucket(actions, c, t)[i].tx_type = Deposit

C13_DepositStep ==
    \A e \in StepEvents :
        LET c == e.client_id
            before == AccountOrNew(accounts, c)
        IN  (e.tx_type = Deposit /\ Applied(e))
            => /\ c \in DOMAIN accounts'
               /\ accounts'[c].available = before.available + e.amount[1]
               /\ accounts'[c].held = before.held
               /\ accounts'[c].locked = before.locked

C13_Accumulates ==
    \A c \in ClientIds :
        OnlyDeposits(c)
        => /\ c \in DOMAIN accounts
           /\ accounts[c].available = SumOverTx(c, TxIds)

\* C13: a Deposit has no precondition; it creates the client's account (all
\* zero, unlocked) if absent, then increases available by exactly amount and
\* leaves held and locked unchanged; with nothing but deposits applied,
\* available is the sum of the deposited amounts.
C13_DepositRule == [][C13_DepositStep]_vars /\ []C13_Accumulates

\* Deposits of 250 in all, and nothing else, accumulated on one account.
C13_Witness ==
    \E c \in DOMAIN accounts :
        /\ OnlyDeposits(c)
        /\ accounts[c].available = 250
        /\ accounts[c].total = 250

\* ---------------------------------------------------------------- C14
\* C14 as stated: after process_action(e), for an event of any kind, the
\* accounts map has an entry for e.clientId; an account created by an event
\* without balance effect is all zero and unlocked.
C14_AnyEventCreatesAccount ==
    [][\A e \in StepEvents :
          Applied(e)
          => /\ e.client_id \in DOMAIN accounts'
             /\ (e.client_id \notin DOMAIN accounts /\ e.tx_type \in References)
                => accounts'[e.client_id] = UserAccount_new(e.client_id)]_vars

\* The events that create a missing account: a Deposit, and a Dispute whose
\* (clientId, txId) bucket exists already.
Creates(e) ==
    \/ e.tx_type = Deposit
    \/ e.tx_type = Dispute /\ get_bucket(actions, e.client_id, e.tx_id) # None

\* C14 amended: an account is created lazily by a Deposit, or by a Dispute
\* whose (clientId, txId) bucket exists already: after such an event the
\* accounts map has an entry for e.clientId, and an account created without
\* balance effect (a Dispute of a bucket that holds no Deposit/Withdrawal) is
\* all zero and unlocked.  No other event creates an account.
C14_LazyCreation ==
    [][\A e \in StepEvents :
          Applied(e)
          => /\ Creates(e) => e.client_id \in DOMAIN accounts'
             /\ ~Creates(e) => DOMAIN accounts' = DOMAIN accounts
             /\ DOMAIN accounts' \subseteq DOMAIN accounts \cup {e.client_id}
             /\ ( /\ e.client_id \notin DOMAIN accounts
                  /\ e.tx_type = Dispute
                  /\ Creates(e)
                  /\ ~HasPosting(Bucket(actions, e.client_id, e.tx_id)) )
                => accounts'[e.client_id] = UserAccount_new(e.client_id)]_vars

\* An all-zero account that a second Dispute of an unknown transaction
\* created, next to a client that a Withdrawal referenced and that has no
\* account.
C14_Witness ==
    \E c \in DOMAIN accounts, d \in ClientIds \ DOMAIN accounts :
        /\ accounts[c] = UserAccount_new(c)
        /\ \E t \in TxIds :
              /\ Len(Bucket(actions, c, t)) >= 2
              /\ \A i \in 1..Len(Bucket(actions, c, t)) :
                    Bucket(actions, c, t)[i].tx_type = Dispute
        /\ \E t \in TxIds :
              /\ Len(Bucket(actions, d, t)) >= 1
              /\ Bucket(actions, d, t)[1].tx_type = Withdrawal

\* ---------------------------------------------------------------- C15
\* After the step, the bucket of e is the old one with e at its end, and every
\* other bucket is as it was (absent ones still absent).
AppendedToItsBucket(e) ==
    /\ e.client_id \in DOMAIN actions'
    /\ e.tx_id \in DOMAIN actions'[e.client_id]
    /\ actions'[e.client_id][e.tx_id] =
          Bucket(actions, e.client_id, e.tx_id) \o <<e>>
    /\ \A c \in ClientIds, t \in TxIds :
          (c # e.client_id \/ t # e.tx_id)
          => get_bucket(actions', c, t) = get_bucket(actions, c, t)
    /\ DOMAIN actions' = DOMAIN actions \cup {e.client_id}

\* C15: the history is append-only and complete: every process_action(e)
\* call appends exactly e at the end of the (clientId, txId) bucket, whether
\* or not e changed an account; no existing entry is modified or removed and
\* all other buckets are unchanged.  Every step is process_action(e) for an
\* event e that the step left appended in this way.
C15_HistoryAppendOnly ==
    [][\E e \in StepEvents :
          process_action(e) /\ AppendedToItsBucket(e)]_vars

\* A bucket that recorded three events of a client who never got an account:
\* none of them changed anything.
C15_Witness ==
    \E c \in ClientIds \ DOMAIN accounts, t \in TxIds :
        LET b == Bucket(actions, c, t) IN
        /\ Len(b) = 3
        /\ b[1].tx_type = Withdrawal
        /\ b[2].tx_type = Resolve
        /\ b[3].tx_type = Chargeback

\* ---------------------------------------------------------------- C16
\* C16: a Dispute, Resolve or Chargeback of a (clientId, txId) pair for which
\* no event at all is recorded leaves the accounts map unchanged: no field
\* changes, no account is created.
C16_UnrecordedTxIsNoOp ==
    [][\A e \in StepEvents :
          ( /\ e.tx_type \in References
            /\ Applied(e)
            /\ get_bucket(actions, e.client_id, e.tx_id) = None )
          => accounts' = accounts]_vars

\* deposit(1,1,100.0) and a dispute of the unknown transaction 2 of client 1:
\* available = 100, held = 0.
C16_Witness ==
    /\ actions = (1 :> ( (1 :> << Tx(Deposit, 1, 1, Some(100)) >>)
                      @@ (2 :> << Tx(Dispute, 1, 2, None) >>) ))
    /\ accounts[1].available = 100
    /\ accounts[1].held = 0

\* ---------------------------------------------------------------- C17
\* The balances of an account, without its lock.
Balances(account) ==
    <<account.available, account.held, account.total>>

\* C17: locked is advisory only: for two engine states that differ only in
\* the locked flag of one account, the same event yields the same available,
\* held and total for every account; no event is blocked or altered because
\* the account is locked.  Checked on every step of the engine against the
\* state that differs from the step's in the lock of one account.
C17_LockedIsAdvisory ==
    [][\A e \in StepEvents :
          Applied(e)
          => \A c \in DOMAIN accounts :
                LET flipped == [accounts EXCEPT ![c].locked = ~@]
                    there == dispatch(flipped, actions, e)
                IN  /\ DOMAIN there = DOMAIN accounts'
                    /\ \A d \in DOMAIN there :
                          Balances(there[d]) = Balances(accounts'[d])]_vars

\* A locked account whose bucket took a Deposit or Withdrawal after the
\* chargeback, and whose balance is not what the chargeback left.
C17_Witness ==
    \E c \in DOMAIN accounts, t \in TxIds :
        LET b == Bucket(actions, c, t) IN
        /\ Len(b) = 4
        /\ IsPosting(b[1])
        /\ b[2].tx_type = Dispute
        /\ b[3].tx_type = Chargeback
        /\ IsPosting(b[4])
        /\ accounts[c].locked
        /\ accounts[c].available # 0 - unwrap_or(b[1].amount, 0)
        /\ OnlyBucket(c, t, b)

\* ---------------------------------------------------------------- C18
\* C18: locked is set only by Chargeback: Deposit, Withdrawal, Dispute and
\* Resolve never change an account's locked flag, a new account is unlocked,
\* and an account is locked after a step if and only if it was locked before
\* or the step is a Chargeback for that client, applied while its (clientId,
\* txId) bucket held a Dispute and the account existed.  As no account exists
\* initially, an account is locked exactly when such a Chargeback was applied.
C18_LockedOnlyByChargeback ==
    [][\A e \in StepEvents :
          Applied(e)
          => \A c \in DOMAIN accounts' :
                accounts'[c].locked
                <=> \/ c \in DOMAIN accounts /\ accounts[c].locked
                    \/ /\ e.tx_type = Chargeback
                       /\ e.client_id = c
                       /\ c \in DOMAIN accounts
                       /\ has_dispute(Bucket(actions, c, e.tx_id))]_vars

\* One client was locked by a Chargeback of a transaction that was only ever
\* disputed; another has a recorded Chargeback and no account to lock.
C18_Witness ==
    \E c \in DOMAIN accounts, d \in ClientIds \ DOMAIN accounts :
        /\ accounts[c].locked
        /\ \E t \in TxIds :
              LET b == Bucket(actions, c, t) IN
              /\ Len(b) = 3
              /\ b[3].tx_type = Chargeback
              /\ has_dispute(SubSeq(b, 1, 2))
              /\ ~HasPosting(b)
        /\ \E t \in TxIds :
              LET b == Bucket(actions, d, t) IN
              /\ Len(b) = 1
              /\ b[1].tx_type = Chargeback

\* ---------------------------------------------------------------- C19
\* The well-formed records of a sequence of results, in order.
RECURSIVE WellFormed(_)
WellFormed(results) ==
    IF results = <<>> THEN <<>>
    ELSE IF Head(results)[1] = "Ok"
         THEN <<Head(results)[2]>> \o WellFormed(Tail(results))
         ELSE WellFormed(Tail(results))

RECURSIVE Malformed(_)
Malformed(results) ==
    IF results = <<>> THEN 0
    ELSE (IF Head(results)[1] = "Err" THEN 1 ELSE 0) + Malformed(Tail(results))

\* The events of a sequence that belong to the bucket (client_id, tx_id).
EventsOf(events, client_id, tx_id) ==
    SelectSeq(events,
              LAMBDA a : a.client_id = client_id /\ a.tx_id = tx_id)

\* C19: the event source delivers to the engine exactly the well-formed
\* records of the origin, in origin order.  The items yielded are the
\* well-formed records read so far in the order read, every malformed record
\* produced one diagnostic and did not stop the sequence, process_action ran
\* once per yielded item, and the history the engine recorded is, bucket by
\* bucket, the well-formed records of the origin in origin order.
C19_SourceDeliversWellFormed ==
    /\ yielded = WellFormed(origin)
    /\ diagnostics = Malformed(origin)
    /\ Len(origin) = Len(yielded) + diagnostics
    /\ delivered = Len(yielded)
    /\ \A i \in 1..Len(yielded) : yielded[i] \in UserTransactions
    /\ \A c \in ClientIds, t \in TxIds :
           Bucket(actions, c, t) = EventsOf(WellFormed(origin), c, t)

\* A malformed record between well-formed ones: the records after it are
\* still delivered, among them one without an amount.
C19_Witness ==
    /\ Len(origin) = 4
    /\ origin[1][1] = "Ok"
    /\ origin[2][1] = "Err"
    /\ origin[3][1] = "Ok" /\ origin[3][2].amount = None
    /\ origin[4][1] = "Ok"
    /\ Len(yielded) = 3
    /\ diagnostics = 1
    /\ delivered = 3

\* ---------------------------------------------------------------- C20
\* The number a written field denotes, in units of 10^-places.
RECURSIVE DigitsValue(_)
DigitsValue(digits) ==
    IF digits = <<>> THEN 0
    ELSE 10 * DigitsValue(SubSeq(digits, 1, Len(digits) - 1))
         + digits[Len(digits)]

FieldValue(field, places) ==
    LET magnitude == DigitsValue(field.whole) * Pow10(places)
                     + DigitsValue(field.frac) * Pow10(places - Len(field.frac))
    IN  IF field.negative THEN -magnitude ELSE magnitude

\* The stored value rounded to `places` fractional digits, in units of
\* 10^-places: the multiple nearest to it (there is one, see Unambiguous).
RoundedTo(d, places) ==
    IF d.scale <= places THEN d.mantissa * Pow10(places - d.scale)
    ELSE LET p == Pow10(d.scale - places)
             a == Abs(d.mantissa)
             q == CHOOSE n \in {a \div p, a \div p + 1} :
                      2 * Abs(n * p - a) < p
         IN  IF d.mantissa < 0 THEN -q ELSE q

FourFractionalDigits(field, d) ==
    /\ Len(field.frac) = FourPlaces
    /\ Len(field.whole) >= 1
    /\ FieldValue(field, FourPlaces) = RoundedTo(d, FourPlaces)

\* C20: in every rendering path (the library serializer and the binary's
\* serializer) a field is written as the stored value rounded to four
\* fractional digits, with exactly four digits after the decimal point.
C20_FourFractionalDigits ==
    written # None => FourFractionalDigits(written[1].field, decimal)

\* The library path alone writes four fractional digits.
C20_LibraryPath ==
    (written # None /\ written[1].path = "lib")
        => FourFractionalDigits(written[1].field, decimal)

\* 12345.6789 written by the binary: 12350, no digit after the point.
C20_Diverges ==
    /\ decimal = [mantissa |-> 123456789, scale |-> 4]
    /\ written = Some([path |-> "main",
                       field |-> [negative |-> FALSE,
                                  whole |-> <<1, 2, 3, 5, 0>>,
                                  frac |-> <<>>]])

\* ---------------------------------------------------------------- C21
\* C21: when a (clientId, txId) bucket holds several Deposit/Withdrawal
\* entries, a Dispute, Resolve or Chargeback of it moves the amount of the one
\* that was inserted first, whatever the later ones carry: the Dispute takes
\* it from available into held; the Resolve (after a Dispute, on an existing
\* account) moves it back; the Chargeback (same conditions) takes it from
\* both held and available.
C21_FirstPostingWins ==
    [][\A e \in StepEvents :
          LET b == Bucket(actions, e.client_id, e.tx_id)
              c == e.client_id
              postings == {i \in 1..Len(b) : IsPosting(b[i])}
              before == AccountOrNew(accounts, c)
          IN  ( /\ Applied(e)
                /\ e.tx_type \in References
                /\ Cardinality(postings) >= 2
                /\ (e.tx_type = Dispute
                    \/ (has_dispute(b) /\ c \in DOMAIN accounts)) )
              => \E i \in postings :
                     /\ \A j \in postings : i <= j
                     /\ c \in DOMAIN accounts'
                     /\ LET a == b[i].amount[1]
                            after == accounts'[c]
                        IN  CASE e.tx_type = Dispute ->
                                   /\ after.available = before.available - a
                                   /\ after.held = before.held + a
                              [] e.tx_type = Resolve ->
                                   /\ after.available = before.available + a
                                   /\ after.held = before.held - a
                              [] e.tx_type = Chargeback ->
                                   /\ after.available = before.available - a
                                   /\ after.held = before.held - a]_vars

\* deposit 100 and deposit 50 under the same tx id, then a dispute and a
\* resolve of it: the dispute held 100, not 50, and the resolve released 100.
C21_Witness ==
    /\ OnlyBucket(1, 1, << Tx(Deposit, 1, 1, Some(100)),
                           Tx(Deposit, 1, 1, Some(50)),
                           Tx(Dispute, 1, 1, None),
                           Tx(Resolve, 1, 1, None) >>)
    /\ accounts[1].available = 150
    /\ accounts[1].held = 0

\* ---------------------------------------------------------------- C22
\* Number of history entries over all buckets of the given (client, tx) pairs.
RECURSIVE HistoryEntries(_, _)
HistoryEntries(acts, pairs) ==
    IF pairs = {} THEN 0
    ELSE LET p == CHOOSE q \in pairs : TRUE
         IN  Len(Bucket(acts, p[1], p[2])) + HistoryEntries(acts, pairs \ {p})

\* A step of the loop takes the record at the front of what is left of the
\* file, and applies it, once, if it is well-formed.
C22_StepInOrder ==
    (pc = "loop" /\ pending # <<>>)
    => /\ origin' = Append(origin, Head(pending))
       /\ pending' = Tail(pending)
       /\ IF Head(pending)[1] = "Ok"
          THEN /\ Applied(Head(pending)[2])
               /\ delivered' = delivered + 1
               /\ yielded' = Append(yielded, Head(pending)[2])
          ELSE UNCHANGED <<engine_vars, yielded>>

\* After the loop nothing of the file is left, the events applied are the
\* delivered ones in source order, and the history holds one entry for each.
C22_WhenDone ==
    pc = "done"
    => /\ pending = <<>>
       /\ yielded = WellFormed(origin)
       /\ delivered = Len(yielded)
       /\ HistoryEntries(actions, ClientIds \X TxIds) = delivered
       /\ \A c \in ClientIds, t \in TxIds :
              Bucket(actions, c, t) = EventsOf(yielded, c, t)

\* C22: given a finite event sequence, the driver loop applies every
\* delivered event exactly once, strictly in source order, and then
\* terminates; when it has terminated the number of history entries over all
\* buckets equals the number of events delivered.
C22_DriverLoop ==
    /\ [][C22_StepInOrder]_vars
    /\ []C22_WhenDone
    /\ <>(pc = "done")

\* The loop has ended on a file of four records, one of them malformed: three
\* events were applied and the history holds three entries.
C22_Witness ==
    /\ pc = "done"
    /\ Len(origin) = 4
    /\ diagnostics = 1
    /\ delivered = 3
    /\ HistoryEntries(actions, ClientIds \X TxIds) = 3
    /\ Len(Bucket(actions, 1, 1)) >= 2

\* ---------------------------------------------------------------- C23
\* C23: an event of client c never creates, removes or changes the account
\* or the history buckets of another client d: d has an account after the
\* step exactly if it had one before, with the same fields, and the same
\* holds of d's buckets.  So a Dispute, Resolve or Chargeback that d issues
\* for a tx id recorded under c leaves c's account as it was.
C23_ClientIsolation ==
    [][\A e \in StepEvents :
          Applied(e)
          => \A d \in ClientIds \ {e.client_id} :
                 /\ d \in DOMAIN accounts' <=> d \in DOMAIN accounts
                 /\ d \in DOMAIN accounts => accounts'[d] = accounts[d]
                 /\ d \in DOMAIN actions' <=> d \in DOMAIN actions
                 /\ d \in DOMAIN actions => actions'[d] = actions[d]]_vars

\* Client 1 deposited 100 as tx 1; client 2 then disputed and charged back
\* tx 1 under its own id: client 1's account is as the deposit left it.
C23_Witness ==
    /\ actions = (1 :> (1 :> << Tx(Deposit, 1, 1, Some(100)) >>))
                 @@ (2 :> (1 :> << Tx(Dispute, 2, 1, None),
                                   Tx(Chargeback, 2, 1, None) >>))
    /\ accounts[1] = [client_id |-> 1, available |-> 100, held |-> 0,
                      total |-> 100, locked |-> FALSE]

\* ---------------------------------------------------------------- C24
\* C24: a Dispute or a Resolve leaves the total of every account as it was (an
\* account the Dispute creates has total 0); a step changes a total only as a
\* Deposit, by +amount, as a Withdrawal that had the funds, by -amount, or as
\* a Chargeback that found a Dispute, by minus twice the posted amount, and
\* only the total of the event's own client.
C24_TotalChangesOnlyByPosting ==
    [][\A e \in StepEvents :
          Applied(e)
          => \A c \in DOMAIN accounts' :
                 LET before == AccountOrNew(accounts, c)
                     after == accounts'[c]
                     b == Bucket(actions, e.client_id, e.tx_id)
                     amount == unwrap_or(e.amount, 0)
                 IN  /\ e.tx_type \in {Dispute, Resolve}
                        => after.total = before.total
                     /\ after.total # before.total
                        => /\ c = e.client_id
                           /\ CASE e.tx_type = Deposit ->
                                     after.total = before.total + amount
                                [] e.tx_type = Withdrawal ->
                                     /\ before.available >= amount
                                     /\ after.total = before.total - amount
                                [] e.tx_type = Chargeback ->
                                     /\ has_dispute(b)
                                     /\ after.total
                                        = before.total - 2 * PostedAmount(b)
                                [] OTHER -> FALSE]_vars

\* deposit 100, dispute and resolve of it, and a withdrawal of 50: the
\* total is 50, the dispute and the resolve having left it at 100.
C24_Witness ==
    /\ actions = (1 :> ( (1 :> << Tx(Deposit, 1, 1, Some(100)),
                                  Tx(Dispute, 1, 1, None),
                                  Tx(Resolve, 1, 1, None) >>)
                      @@ (2 :> << Tx(Withdrawal, 1, 2, Some(50)) >>) ))
    /\ accounts[1].total = 50
    /\ accounts[1].held = 0

\* ---------------------------------------------------------------- C25
\* A Withdrawal that the engine drops: no account, or not enough available.
Dropped(e) ==
    /\ e.tx_type = Withdrawal
    /\ \/ e.client_id \notin DOMAIN accounts
       \/ accounts[e.client_id].available < unwrap_or(e.amount, 0)

\* A dropped Withdrawal changes no account and is appended to its bucket.
C25_DroppedIsRecorded ==
    \A e \in StepEvents :
        (Applied(e) /\ Dropped(e))
        => /\ accounts' = accounts
           /\ Bucket(actions', e.client_id, e.tx_id)
              = Append(Bucket(actions, e.client_id, e.tx_id), e)

\* A Dispute of a bucket whose posting is a Withdrawal moves that amount.
C25_DisputeOfWithdrawal ==
    \A e \in StepEvents :
        LET b == Bucket(actions, e.client_id, e.tx_id)
            c == e.client_id
            before == AccountOrNew(accounts, c)
        IN  ( /\ Applied(e)
              /\ e.tx_type = Dispute
              /\ b # <<>>
              /\ b[1].tx_type = Withdrawal )
            => /\ c \in DOMAIN accounts'
               /\ accounts'[c].available = before.available - b[1].amount[1]
               /\ accounts'[c].held = before.held + b[1].amount[1]

\* A withdrawal dropped for want of an account, then disputed; and one dropped
\* for want of funds after a deposit under another tx id, then disputed.
C25_Scenarios ==
    \A c \in ClientIds, amt \in PostingAmounts :
        /\ OnlyBucket(c, 1, << Tx(Withdrawal, c, 1, amt),
                               Tx(Dispute, c, 1, None) >>)
           => /\ c \in DOMAIN accounts
              /\ accounts[c].available = 0 - amt[1]
              /\ accounts[c].held = amt[1]
        /\ ( /\ amt[1] > 50
             /\ actions = (c :> ( (1 :> << Tx(Deposit, c, 1, Some(50)) >>)
                               @@ (2 :> << Tx(Withdrawal, c, 2, amt),
                                           Tx(Dispute, c, 2, None) >>) )) )
           => /\ accounts[c].available = 50 - amt[1]
              /\ accounts[c].held = amt[1]

\* C25: a Withdrawal that was dropped (insufficient funds, or no account for
\* the client) is still recorded in its history bucket, and a later Dispute
\* referencing it takes effect with the withdrawal's full amount:
\* available -= amount, held += amount, creating the client's account first
\* if it does not exist.
C25_DroppedWithdrawalDisputed ==
    /\ [][C25_DroppedIsRecorded /\ C25_DisputeOfWithdrawal]_vars
    /\ []C25_Scenarios

\* deposit 50, a withdrawal of 100 that was dropped, and its dispute:
\* available = -50, held = 100.
C25_Witness ==
    /\ actions = (1 :> ( (1 :> << Tx(Deposit, 1, 1, Some(50)) >>)
                      @@ (2 :> << Tx(Withdrawal, 1, 2, Some(100)),
                                  Tx(Dispute, 1, 2, None) >>) ))
    /\ accounts[1].available = -50
    /\ accounts[1].held = 100
    /\ accounts[1].total = 50

\* ---------------------------------------------------------------- C26
\* The indices of a bucket that hold an event of one of the given types.
IndicesOf(bucket, types) ==
    {i \in 1..Len(bucket) : bucket[i].tx_type \in types}

\* A bucket of a well-formed event sequence: at most one Deposit/Withdrawal,
\* of a non-negative amount; at most one Dispute, and only after the
\* Deposit/Withdrawal; at most one Resolve or Chargeback.
WellFormedBucket(bucket) ==
    LET postings == IndicesOf(bucket, {Deposit, Withdrawal})
        disputes == IndicesOf(bucket, {Dispute})
        closings == IndicesOf(bucket, {Resolve, Chargeback})
    IN  /\ Cardinality(postings) <= 1
        /\ \A i \in postings : unwrap_or(bucket[i].amount, 0) >= 0
        /\ Cardinality(disputes) <= 1
        /\ \A i \in disputes : \E j \in postings : j < i
        /\ Cardinality(closings) <= 1

WellFormedHistory ==
    \A c \in DOMAIN actions : \A t \in DOMAIN actions[c] :
        WellFormedBucket(actions[c][t])

\* The transaction of the bucket is disputed and neither resolved nor charged
\* back since.
Disputed(bucket) ==
    \E i \in IndicesOf(bucket, {Dispute}) :
        \A j \in IndicesOf(bucket, {Resolve, Chargeback}) : j < i

\* Sum of the amounts of the client's transactions, among txs, in dispute.
RECURSIVE DisputedSum(_, _)
DisputedSum(c, txs) ==
    IF txs = {} THEN 0
    ELSE LET t == CHOOSE x \in txs : TRUE
             b == Bucket(actions, c, t)
         IN  (IF Disputed(b) THEN PostedAmount(b) ELSE 0)
             + DisputedSum(c, txs \ {t})

\* C26: for well-formed event sequences, in every reachable state each
\* account's held equals the sum of the amounts of that client's transactions
\* currently disputed (disputed and not yet resolved or charged back), hence
\* held >= 0.
C26_HeldIsDisputedSum ==
    WellFormedHistory
    => \A c \in DOMAIN accounts :
           /\ accounts[c].held = DisputedSum(c, TxIds)
           /\ accounts[c].held >= 0

\* Two deposits of client 1, both in dispute: held = 150.
C26_Witness ==
    /\ WellFormedHistory
    /\ actions = (1 :> ( (1 :> << Tx(Deposit, 1, 1, Some(100)),
                                  Tx(Dispute, 1, 1, None) >>)
                      @@ (2 :> << Tx(Deposit, 1, 2, Some(50)),
                                  Tx(Dispute, 1, 2, None) >>) ))
    /\ accounts[1].held = 150
    /\ accounts[1].available = 0

\* A dispute was resolved while another stays open: held is the open one.
C26_WitnessResolved ==
    /\ WellFormedHistory
    /\ \E c \in DOMAIN accounts :
           /\ Len(Bucket(actions, c, 1)) = 3
           /\ Bucket(actions, c, 1)[3].tx_type \in {Resolve, Chargeback}
           /\ ~Disputed(Bucket(actions, c, 1))
           /\ accounts[c].held = 0

\* ---------------------------------------------------------------- C27
\* C27: the engine of the binary and the engine of the library are
\* equivalent: fed the same event sequence from the empty state (no record
\* was rejected by either program), after every event both hold the same
\* accounts, with the same available, held, total and locked, and the same
\* history buckets.
C27_EnginesEquivalent ==
    (diagnostics = 0 /\ main_diagnostics = 0)
    => /\ main_accounts = accounts
       /\ main_actions = actions

\* The accounts alone already differ.
C27_SameAccounts ==
    (diagnostics = 0 /\ main_diagnostics = 0) => main_accounts = accounts

\* deposit 100 as tx 1, then a dispute of the unknown tx 2, both read by both
\* programs: the library records the dispute, the binary does not.
C27_Diverges ==
    /\ diagnostics = 0
    /\ main_diagnostics = 0
    /\ actions = (1 :> ( (1 :> << Tx(Deposit, 1, 1, Some(100)) >>)
                      @@ (2 :> << Tx(Dispute, 1, 2, None) >>) ))
    /\ main_actions = (1 :> (1 :> << Tx(Deposit, 1, 1, Some(100)) >>))
    /\ main_accounts = accounts

\* The file deposit, dispute, chargeback: the library charges back and locks;
\* the binary rejects the third record and still holds the funds.
C27_ChargebackRejected ==
    /\ OnlyBucket(1, 1, << Tx(Deposit, 1, 1, Some(100)),
                           Tx(Dispute, 1, 1, None),
                           Tx(Chargeback, 1, 1, None) >>)
    /\ accounts[1] = [client_id |-> 1, available |-> -100, held |-> 0,
                      total |-> -100, locked |-> TRUE]
    /\ main_actions = (1 :> (1 :> << Tx(Deposit, 1, 1, Some(100)),
                                     Tx(Dispute, 1, 1, None) >>))
    /\ main_accounts[1] = [client_id |-> 1, available |-> 0, held |-> 100,
                           total |-> 100, locked |-> FALSE]
    /\ diagnostics = 0
    /\ main_diagnostics = 1

\* The same file with charge_back: the library rejects the third record and
\* the binary charges back and locks.
C27_ChargeBackAccepted ==
    /\ OnlyBucket(1, 1, << Tx(Deposit, 1, 1, Some(100)),
                           Tx(Dispute, 1, 1, None) >>)
    /\ accounts[1] = [client_id |-> 1, available |-> 0, held |-> 100,
                      total |-> 100, locked |-> FALSE]
    /\ main_actions = (1 :> (1 :> << Tx(Deposit, 1, 1, Some(100)),
                                     Tx(Dispute, 1, 1, None),
                                     Tx(Chargeback, 1, 1, None) >>))
    /\ main_accounts[1] = [client_id |-> 1, available |-> -100, held |-> 0,
                           total |-> -100, locked |-> TRUE]
    /\ diagnostics = 1
    /\ main_diagnostics = 0

====
